---------------------------- MODULE Spec2Model ----------------------------
(***************************************************************************)
(* Model of recipe_bridge.py: a sequential job that reads the HelloFresh   *)
(* delivery history page by page, reads the recipes of a Mealie instance   *)
(* that carry a tag, and creates and tags in Mealie every HelloFresh       *)
(* recipe URL that is not yet tagged there.                                *)
(*                                                                         *)
(* One action is one HTTP request of the program together with the code    *)
(* that runs up to the next request.  The two remote services are part of  *)
(* the state (hf_server, mealie_tags, mealie_recipes); each request either *)
(* succeeds, is refused (requests.RequestException: the service is left    *)
(* unchanged) or is served with a body that is not JSON                    *)
(* (json.JSONDecodeError: the service has processed the request).          *)
(* The job is started again after it has exited (Rerun), against the same  *)
(* delivery history and the Mealie state the previous run left.            *)
(***************************************************************************)
EXTENDS Integers, Sequences, FiniteSets

VARIABLES
    args,             \* argparse result: dry_run, additional_deliveries
    hf_server,        \* HelloFresh: "from" cursor -> past-deliveries page
    mealie_tags,      \* Mealie: the tags, in the order searches list them
    mealie_recipes,   \* Mealie: the recipes; a recipe's slug is its index
    pc,               \* the request the process issues next, or "exit"
    exitCode,         \* exit status of the process
    hf_params,        \* HelloFresh.params (subscription, from)
    hf_recipes,       \* HelloFresh.recipes
    budget,           \* local additional_deliveries of get_past_deliveries
    tag,              \* Mealie.tag (NoTag while the attribute is unset)
    tagged_recipes_nb,\* local of get_tagged_recipes
    tagged_recipes,   \* Mealie.tagged_recipes
    new_recipes,      \* main: elements of new_recipes not yet iterated
    recipe_slug,      \* main: slug returned by add_mealie_recipe
    recipe_body,      \* update_mealie_recipe: the document to PATCH
    run,              \* number of the current run of the job
    runs,             \* history: one record per finished run
    missing,          \* history: <<new_recipes as computed by this run>>
    log               \* history: the HTTP requests issued, in order

vars == <<args, hf_server, mealie_tags, mealie_recipes, pc, exitCode,
          hf_params, hf_recipes, budget, tag, tagged_recipes_nb,
          tagged_recipes, new_recipes, recipe_slug, recipe_body, run, runs,
          missing, log>>

-----------------------------------------------------------------------------
(* Bounds of the model *)

\* largest --additional-deliveries value explored (the smallest is -1)
MaxExtra == 2
\* number of times the job is run
MaxRuns == 2

-----------------------------------------------------------------------------
(* The remote services *)

URLs == {"u1", "u2", "u3"}

CurrentWeek == "W45"

Meal(u) == [websiteURL |-> u]

\* A page without the key nextWeek is the end of the history.
Histories ==
    { [ W45 |-> [weeks |-> << [meals |-> <<Meal("u1")>>],
                              [meals |-> <<Meal("u1"), Meal("u2")>>] >>,
                 nextWeek |-> "W44"],
        W44 |-> [weeks |-> << [meals |-> <<Meal("u2")>>] >>,
                 nextWeek |-> "W43"],
        W43 |-> [weeks |-> << [meals |-> <<Meal("u3")>>] >>] ],
      [ W45 |-> [weeks |-> << [meals |-> <<Meal("u1"), Meal("u2")>>] >>,
                 nextWeek |-> "W43"],
        W44 |-> [weeks |-> << >>],
        W43 |-> [weeks |-> << [meals |-> <<Meal("u1")>>] >>] ],
      [ W45 |-> [weeks |-> << [meals |-> << >>] >>,
                 nextWeek |-> "W44"],
        W44 |-> [weeks |-> << [meals |-> <<Meal("u2")>>] >>,
                 nextWeek |-> "W44"],
        W43 |-> [weeks |-> << >>] ] }

Subscriptions == [items |-> << [id |-> "sub1"] >>]

MealieTag == "HelloFresh"

\* names the tag search of Mealie returns for a search string
Matching(search) ==
    IF search = "HelloFresh" THEN {"HelloFresh", "HelloFresh Box"}
    ELSE {search}

Tag(i, n) == [id |-> i, name |-> n]

NoTag == Tag(0, "")

Recipe(u, ts) == [orgURL |-> u, tags |-> ts]

MealieStates ==
    { [tags |-> << >>, recipes |-> << >>],
      [tags |-> << Tag(1, "HelloFresh") >>,
       recipes |-> << Recipe("u2", << Tag(1, "HelloFresh") >>) >>],
      [tags |-> << Tag(1, "Dinner"), Tag(2, "HelloFresh Box"),
                   Tag(3, "HelloFresh") >>,
       recipes |-> << Recipe("u1", << Tag(3, "HelloFresh") >>),
                      Recipe("u2", << Tag(1, "Dinner"),
                                      Tag(2, "HelloFresh Box") >>),
                      Recipe("u3", << Tag(2, "HelloFresh Box") >>),
                      Recipe("u1", << >>) >>] }

\* GET /api/organizers/tags?search=...
SearchTags(tags, search) ==
    [items |-> SelectSeq(tags, LAMBDA t : t.name \in Matching(search))]

\* POST /api/organizers/tags
NewTag(tags, name) == Tag(Len(tags) + 1, name)

Carries(recipe, t) == \E i \in 1..Len(recipe.tags) : recipe.tags[i].id = t.id

Min(a, b) == IF a <= b THEN a ELSE b

\* GET /api/recipes?tags=...&perPage=...
ListRecipes(recipes, t, perPage) ==
    LET all == SelectSeq(recipes, LAMBDA r : Carries(r, t))
    IN  [total |-> Len(all),
         items |-> SubSeq(all, 1, Min(perPage, Len(all)))]

-----------------------------------------------------------------------------
(* HttpResponder.json_request *)

Outcomes == {"ok", "RequestException", "JSONDecodeError"}

\* an error handler that reports success: exit(0) after a decoding error
ErrorExitStatusZero(e) == IF e = "JSONDecodeError" THEN 0 ELSE 1

\* the status every error handler of json_request passes to exit()
ErrorExitStatus(e) == 1

\* The history keeps of a request whether it succeeded (ok) and whether the
\* service changed its state for it (effect): a POST or PATCH that was not
\* refused.
Request(svc, method, url, arg, outcome, res) ==
    log' = Append(log, [run |-> run, svc |-> svc, method |-> method,
                        url |-> url, arg |-> arg, ok |-> outcome = "ok",
                        effect |-> (method # "get"
                                      /\ outcome # "RequestException"),
                        res |-> res])

\* except requests.RequestException / json.JSONDecodeError: exit(1)
RequestFails(svc, method, url, arg, e) ==
    /\ Request(svc, method, url, arg, e, << >>)
    /\ pc' = "exit"
    /\ exitCode' = ErrorExitStatus(e)

-----------------------------------------------------------------------------
(* HelloFresh *)

Init ==
    /\ args \in [dry_run : BOOLEAN, additional_deliveries : -1..MaxExtra]
    /\ hf_server \in Histories
    /\ \E m \in MealieStates :
          /\ mealie_tags = m.tags
          /\ mealie_recipes = m.recipes
    /\ pc = "set_customer_id"
    /\ exitCode = 0
    /\ hf_params = [subscription |-> "", from |-> ""]
    /\ hf_recipes = {}
    /\ budget = args.additional_deliveries
    /\ tag = NoTag
    /\ tagged_recipes_nb = 0
    /\ tagged_recipes = {}
    /\ new_recipes = {}
    /\ recipe_slug = 0
    /\ recipe_body = Recipe("", << >>)
    /\ run = 1
    /\ runs = << >>
    /\ missing = << >>
    /\ log = << >>

set_customer_id ==
    /\ pc = "set_customer_id"
    /\ \E o \in Outcomes :
          IF o = "ok"
          THEN /\ Request("hellofresh", "get", "subscriptions", hf_params,
                          "ok", Subscriptions)
               /\ hf_params' = [hf_params EXCEPT
                                  !.subscription = Subscriptions.items[1].id]
               /\ pc' = "set_current_week"
               /\ UNCHANGED exitCode
          ELSE /\ RequestFails("hellofresh", "get", "subscriptions",
                               hf_params, o)
               /\ UNCHANGED hf_params
    /\ UNCHANGED <<args, hf_server, mealie_tags, mealie_recipes, hf_recipes,
                   budget, tag, tagged_recipes_nb, tagged_recipes,
                   new_recipes, recipe_slug, recipe_body, run, runs,
                   missing>>

set_current_week ==
    /\ pc = "set_current_week"
    /\ hf_params' = [hf_params EXCEPT !.from = CurrentWeek]
    /\ pc' = "get_past_deliveries"
    /\ UNCHANGED <<args, hf_server, mealie_tags, mealie_recipes, exitCode,
                   hf_recipes, budget, tag, tagged_recipes_nb,
                   tagged_recipes, new_recipes, recipe_slug, recipe_body, run,
                   runs, missing, log>>

RECURSIVE add_meals(_, _, _)
add_meals(recipes, meals, i) ==
    IF i > Len(meals) THEN recipes
    ELSE add_meals(recipes \cup {meals[i].websiteURL}, meals, i + 1)

RECURSIVE add_weeks(_, _, _)
add_weeks(recipes, weeks, i) ==
    IF i > Len(weeks) THEN recipes
    ELSE add_weeks(add_meals(recipes, weeks[i].meals, 1), weeks, i + 1)

\* the page replaces the accumulated set instead of extending it
add_monthly_recipes_overwrite(recipes, deliveries) ==
    add_weeks({}, deliveries.weeks, 1)

add_monthly_recipes(recipes, deliveries) ==
    add_weeks(recipes, deliveries.weeks, 1)

\* off by one: the budget test lets a budget of zero fetch another page
HasBudgetInclusive(additional_deliveries) == additional_deliveries >= 0

\* if additional_deliveries > 0
HasBudget(additional_deliveries) == additional_deliveries > 0

\* the missing cursor treated as a fatal error
OnKeyErrorFatal(additional_deliveries) == [pc |-> "exit", exitCode |-> 1]

\* except KeyError: logging.error(...); return
OnKeyError(additional_deliveries) == [pc |-> "set_tag_id", exitCode |-> 0]

\* one iteration of the while True loop
get_past_deliveries ==
    /\ pc = "get_past_deliveries"
    /\ \E o \in Outcomes :
          IF o = "ok"
          THEN LET most_recent_deliveries == hf_server[hf_params.from]
               IN  /\ Request("hellofresh", "get", "past-deliveries",
                              hf_params, "ok", most_recent_deliveries)
                   /\ hf_recipes' = add_monthly_recipes(hf_recipes,
                                                    most_recent_deliveries)
                   /\ IF HasBudget(budget)
                      THEN IF "nextWeek" \in DOMAIN most_recent_deliveries
                           THEN /\ hf_params' =
                                     [hf_params EXCEPT !.from =
                                        most_recent_deliveries.nextWeek]
                                /\ budget' = budget - 1
                                /\ UNCHANGED <<pc, exitCode>>
                           ELSE /\ pc' = OnKeyError(budget).pc
                                /\ exitCode' = OnKeyError(budget).exitCode
                                /\ UNCHANGED <<hf_params, budget>>
                      ELSE /\ pc' = "set_tag_id"
                           /\ UNCHANGED <<hf_params, budget, exitCode>>
          ELSE /\ RequestFails("hellofresh", "get", "past-deliveries",
                               hf_params, o)
               /\ UNCHANGED <<hf_params, hf_recipes, budget>>
    /\ UNCHANGED <<args, hf_server, mealie_tags, mealie_recipes, tag,
                   tagged_recipes_nb, tagged_recipes, new_recipes,
                   recipe_slug, recipe_body, run, runs, missing>>

-----------------------------------------------------------------------------
(* Mealie *)

\* the search result ignored: a tag is created on every call
NeedsCreateAlways(items) == TRUE

\* if not tag_id_res["items"]
NeedsCreate(items) == items = << >>

\* self.tag = tag_id_res["items"][0]
FirstItem(items) == items[1]

\* the listing queries sent without the resolved tag
TagsParamUnset(t) == NoTag

\* params={"tags": self.tag, ...}
TagsParam(t) == t

\* the count probe's page size reused for the second query
PerPageZero(tagged_nb) == 0

\* "perPage": tagged_recipes_nb
PerPage(tagged_nb) == tagged_nb

\* {recipe["orgURL"] for recipe in tagged_recipes_res["items"]}
OrgURLs(items) == {items[i].orgURL : i \in 1..Len(items)}

set_tag_id ==
    /\ pc = "set_tag_id"
    /\ \E o \in Outcomes :
          IF o = "ok"
          THEN LET tag_id_res == SearchTags(mealie_tags, MealieTag)
               IN  /\ Request("mealie", "get", "tags", MealieTag, "ok",
                              tag_id_res)
                   /\ IF NeedsCreate(tag_id_res.items)
                      THEN /\ pc' = "create_tag"
                           /\ UNCHANGED tag
                      ELSE /\ tag' = FirstItem(tag_id_res.items)
                           /\ pc' = "get_tagged_recipes_count"
                   /\ UNCHANGED exitCode
          ELSE /\ RequestFails("mealie", "get", "tags", MealieTag, o)
               /\ UNCHANGED tag
    /\ UNCHANGED <<args, hf_server, mealie_tags, mealie_recipes, hf_params,
                   hf_recipes, budget, tagged_recipes_nb, tagged_recipes,
                   new_recipes, recipe_slug, recipe_body, run, runs,
                   missing>>

create_tag ==
    /\ pc = "create_tag"
    /\ \E o \in Outcomes :
          LET created == NewTag(mealie_tags, MealieTag)
          IN  /\ mealie_tags' = IF o = "RequestException" THEN mealie_tags
                                ELSE Append(mealie_tags, created)
              /\ IF o = "ok"
                 THEN /\ Request("mealie", "post", "tags", MealieTag, "ok",
                                 created)
                      /\ tag' = created
                      /\ pc' = "get_tagged_recipes_count"
                      /\ UNCHANGED exitCode
                 ELSE /\ RequestFails("mealie", "post", "tags", MealieTag, o)
                      /\ UNCHANGED tag
    /\ UNCHANGED <<args, hf_server, mealie_recipes, hf_params, hf_recipes,
                   budget, tagged_recipes_nb, tagged_recipes, new_recipes,
                   recipe_slug, recipe_body, run, runs, missing>>

\* get_tagged_recipes, first query: "Retrieve recipes count to infer paging"
get_tagged_recipes_count ==
    /\ pc = "get_tagged_recipes_count"
    /\ \E o \in Outcomes :
          LET params == [tags |-> TagsParam(tag), perPage |-> 0]
          IN  IF o = "ok"
              THEN LET tagged_recipes_nb_res ==
                           ListRecipes(mealie_recipes, params.tags,
                                       params.perPage)
                   IN  /\ Request("mealie", "get", "recipes", params, "ok",
                                  tagged_recipes_nb_res)
                       /\ tagged_recipes_nb' = tagged_recipes_nb_res.total
                       /\ pc' = "get_tagged_recipes"
                       /\ UNCHANGED exitCode
              ELSE /\ RequestFails("mealie", "get", "recipes", params, o)
                   /\ UNCHANGED tagged_recipes_nb
    /\ UNCHANGED <<args, hf_server, mealie_tags, mealie_recipes, hf_params,
                   hf_recipes, budget, tag, tagged_recipes, new_recipes,
                   recipe_slug, recipe_body, run, runs, missing>>

\* get_tagged_recipes, second query and the assignment of tagged_recipes
get_tagged_recipes ==
    /\ pc = "get_tagged_recipes"
    /\ \E o \in Outcomes :
          LET params == [tags |-> TagsParam(tag),
                         perPage |-> PerPage(tagged_recipes_nb)]
          IN  IF o = "ok"
              THEN LET tagged_recipes_res ==
                           ListRecipes(mealie_recipes, params.tags,
                                       params.perPage)
                   IN  /\ Request("mealie", "get", "recipes", params, "ok",
                                  tagged_recipes_res)
                       /\ tagged_recipes' = OrgURLs(tagged_recipes_res.items)
                       /\ pc' = "main_compare"
                       /\ UNCHANGED exitCode
              ELSE /\ RequestFails("mealie", "get", "recipes", params, o)
                   /\ UNCHANGED tagged_recipes
    /\ UNCHANGED <<args, hf_server, mealie_tags, mealie_recipes, hf_params,
                   hf_recipes, budget, tag, tagged_recipes_nb, new_recipes,
                   recipe_slug, recipe_body, run, runs, missing>>

-----------------------------------------------------------------------------
(* main *)

\* the tagged recipes not subtracted
NewRecipesNoDifference(recipes, tagged) == recipes

\* hellofresh_client.recipes - mealie_client.tagged_recipes
NewRecipes(recipes, tagged) == recipes \ tagged

\* if args.dry_run: ... exit(0); else new_recipes = ...
main_compare ==
    /\ pc = "main_compare"
    /\ new_recipes' = NewRecipes(hf_recipes, tagged_recipes)
    /\ missing' = << new_recipes' >>
    /\ IF args.dry_run
       THEN /\ pc' = "exit"
            /\ exitCode' = 0
       ELSE /\ pc' = "add_mealie_recipe"
            /\ UNCHANGED exitCode
    /\ UNCHANGED <<args, hf_server, mealie_tags, mealie_recipes, hf_params,
                   hf_recipes, budget, tag, tagged_recipes_nb,
                   tagged_recipes, recipe_slug, recipe_body, run, runs, log>>

\* for new_recipe in new_recipes: recipe_slug = add_mealie_recipe(new_recipe)
\* (a set is iterated in an unspecified order)
add_mealie_recipe ==
    /\ pc = "add_mealie_recipe"
    /\ \E new_recipe \in new_recipes : \E o \in Outcomes :
          LET data == [url |-> new_recipe]
              slug == Len(mealie_recipes) + 1
          IN  /\ mealie_recipes' =
                    IF o = "RequestException" THEN mealie_recipes
                    ELSE Append(mealie_recipes, Recipe(data.url, << >>))
              /\ IF o = "ok"
                 THEN /\ Request("mealie", "post", "recipes/create/url",
                                 data, "ok", slug)
                      /\ recipe_slug' = slug
                      /\ new_recipes' = new_recipes \ {new_recipe}
                      /\ pc' = "get_mealie_recipe"
                      /\ UNCHANGED exitCode
                 ELSE /\ RequestFails("mealie", "post", "recipes/create/url",
                                      data, o)
                      /\ UNCHANGED <<recipe_slug, new_recipes>>
    /\ UNCHANGED <<args, hf_server, mealie_tags, hf_params, hf_recipes,
                   budget, tag, tagged_recipes_nb, tagged_recipes,
                   recipe_body, run, runs, missing>>

\* update_mealie_recipe, first half: get_mealie_recipe and the append
get_mealie_recipe ==
    /\ pc = "get_mealie_recipe"
    /\ \E o \in Outcomes :
          IF o = "ok"
          THEN LET fetched == mealie_recipes[recipe_slug]
               IN  /\ Request("mealie", "get", "recipes/slug",
                              [slug |-> recipe_slug], "ok", fetched)
                   /\ recipe_body' = [fetched EXCEPT
                                        !.tags = Append(fetched.tags, tag)]
                   /\ pc' = "update_mealie_recipe"
                   /\ UNCHANGED exitCode
          ELSE /\ RequestFails("mealie", "get", "recipes/slug",
                               [slug |-> recipe_slug], o)
               /\ UNCHANGED recipe_body
    /\ UNCHANGED <<args, hf_server, mealie_tags, mealie_recipes, hf_params,
                   hf_recipes, budget, tag, tagged_recipes_nb,
                   tagged_recipes, new_recipes, recipe_slug, run, runs,
                   missing>>

\* update_mealie_recipe, second half: the PATCH of the whole document
update_mealie_recipe ==
    /\ pc = "update_mealie_recipe"
    /\ \E o \in Outcomes :
          /\ mealie_recipes' =
                IF o = "RequestException" THEN mealie_recipes
                ELSE [mealie_recipes EXCEPT ![recipe_slug] = recipe_body]
          /\ IF o = "ok"
             THEN /\ Request("mealie", "patch", "recipes/slug",
                             [slug |-> recipe_slug, data |-> recipe_body],
                             "ok", recipe_body)
                  /\ pc' = "add_mealie_recipe"
                  /\ UNCHANGED exitCode
             ELSE RequestFails("mealie", "patch", "recipes/slug",
                               [slug |-> recipe_slug, data |-> recipe_body],
                               o)
    /\ UNCHANGED <<args, hf_server, mealie_tags, hf_params, hf_recipes,
                   budget, tag, tagged_recipes_nb, tagged_recipes,
                   new_recipes, recipe_slug, recipe_body, run, runs,
                   missing>>

\* the for loop is exhausted: main returns and the interpreter exits with 0
main_return ==
    /\ pc = "add_mealie_recipe"
    /\ new_recipes = {}
    /\ pc' = "exit"
    /\ UNCHANGED <<args, hf_server, mealie_tags, mealie_recipes, exitCode,
                   hf_params, hf_recipes, budget, tag, tagged_recipes_nb,
                   tagged_recipes, new_recipes, recipe_slug, recipe_body,
                   run, runs, missing, log>>

\* the scheduler starts the job again: a new process, the same arguments,
\* the same delivery history, the Mealie state as the last run left it
Rerun ==
    /\ pc = "exit"
    /\ run < MaxRuns
    /\ runs' = Append(runs, [exitCode |-> exitCode, tag |-> tag,
                             missing |-> missing])
    /\ run' = run + 1
    /\ pc' = "set_customer_id"
    /\ exitCode' = 0
    /\ hf_params' = [subscription |-> "", from |-> ""]
    /\ hf_recipes' = {}
    /\ budget' = args.additional_deliveries
    /\ tag' = NoTag
    /\ tagged_recipes_nb' = 0
    /\ tagged_recipes' = {}
    /\ new_recipes' = {}
    /\ recipe_slug' = 0
    /\ recipe_body' = Recipe("", << >>)
    /\ missing' = << >>
    /\ UNCHANGED <<args, hf_server, mealie_tags, mealie_recipes, log>>

Next ==
    \/ set_customer_id
    \/ set_current_week
    \/ get_past_deliveries
    \/ set_tag_id
    \/ create_tag
    \/ get_tagged_recipes_count
    \/ get_tagged_recipes
    \/ main_compare
    \/ add_mealie_recipe
    \/ get_mealie_recipe
    \/ update_mealie_recipe
    \/ main_return
    \/ Rerun

Spec == Init /\ [][Next]_vars

-----------------------------------------------------------------------------
(* Reading the history *)

Idx == 1..Len(log)

IsPageFetch(e) == e.svc = "hellofresh" /\ e.url = "past-deliveries"
IsTagSearch(e) == e.svc = "mealie" /\ e.url = "tags" /\ e.method = "get"
IsTagCreate(e) == e.svc = "mealie" /\ e.url = "tags" /\ e.method = "post"
IsList(e) == e.svc = "mealie" /\ e.url = "recipes"
IsCreate(e) == e.svc = "mealie" /\ e.url = "recipes/create/url"
IsFetchRecipe(e) == e.svc = "mealie" /\ e.url = "recipes/slug"
                                     /\ e.method = "get"
IsPatch(e) == e.svc = "mealie" /\ e.method = "patch"

\* the service has changed its state for the request
Processed(e) == e.effect

\* no request of run r has failed
NoFailure(r) == \A i \in Idx : log[i].run = r => log[i].ok

\* the run in progress has left get_past_deliveries by a return
Returned ==
    \/ pc \in {"set_tag_id", "create_tag", "get_tagged_recipes_count",
               "get_tagged_recipes", "main_compare", "add_mealie_recipe",
               "get_mealie_recipe", "update_mealie_recipe"}
    \/ pc = "exit" /\ \E i \in Idx : log[i].run = run /\ log[i].svc = "mealie"

\* page fetches of run r, failed ones included
Fetches(r) == {i \in Idx : log[i].run = r /\ IsPageFetch(log[i])}

\* the websiteURL values of a page
PageURLs(page) ==
    UNION { { page.weeks[w].meals[m].websiteURL :
                  m \in DOMAIN page.weeks[w].meals } :
            w \in DOMAIN page.weeks }

\* the websiteURL values of the pages run r has received
VisitedURLs(r) ==
    UNION { PageURLs(log[i].res) :
            i \in {j \in Fetches(r) : log[j].ok} }

\* creation calls of run r for URL u, and tagging calls of run r for the
\* recipe that a creation call of run r made from u
Creations(r, u) ==
    {i \in Idx : log[i].run = r /\ IsCreate(log[i]) /\ log[i].arg.url = u}
Taggings(r, u) ==
    {i \in Idx : /\ log[i].run = r
                 /\ IsPatch(log[i])
                 /\ mealie_recipes[log[i].arg.slug].orgURL = u}

ExitCodeOf(r) == IF r = run THEN exitCode ELSE runs[r].exitCode
TagOf(r) == IF r = run THEN tag ELSE runs[r].tag

-----------------------------------------------------------------------------
(* C1 *)

\* C1: a live run without a failed request issues exactly one creation call
\* and one tagging call for each URL of recipes - tagged_recipes, and none
\* for any other URL (in particular none for a URL of tagged_recipes).
C1_OneCreationAndOneTaggingPerMissing ==
    (pc = "exit" /\ ~args.dry_run /\ NoFailure(run)) =>
        \A u \in URLs :
            LET n == IF u \in hf_recipes \ tagged_recipes THEN 1 ELSE 0
            IN  /\ Cardinality(Creations(run, u)) = n
                /\ Cardinality(Taggings(run, u)) = n
                /\ \A i \in Taggings(run, u) :
                      /\ \E j \in Creations(run, u) :
                            j < i /\ log[j].res = log[i].arg.slug
                      /\ Carries(log[i].arg.data, tag)

C1_Witness ==
    /\ pc = "exit" /\ ~args.dry_run /\ NoFailure(run)
    /\ Cardinality(hf_recipes \ tagged_recipes) = 2
    /\ tagged_recipes \cap hf_recipes # {}
    /\ \A u \in hf_recipes \ tagged_recipes :
          Cardinality(Taggings(run, u)) = 1

-----------------------------------------------------------------------------
(* C5 *)

\* C5: when get_past_deliveries has returned, recipes is exactly the set of
\* websiteURL values of the pages fetched by this run.
C5_RecipesAreUnionOfVisitedPages ==
    Returned => hf_recipes = VisitedURLs(run)

C5_Witness ==
    /\ Returned
    /\ Cardinality(Fetches(run)) = 3
    /\ hf_recipes = URLs
    /\ hf_recipes = VisitedURLs(run)

-----------------------------------------------------------------------------
(* C2 *)

\* C2: a live run that follows a live run which completed without a failed
\* request computes an empty new_recipes and issues no creation and no
\* tagging call.
C2_SecondRunImportsNothing ==
    (run > 1 /\ ~args.dry_run /\ runs[run - 1].exitCode = 0
             /\ NoFailure(run - 1)) =>
        /\ missing # << >> => missing[1] = {}
        /\ \A i \in Idx : log[i].run = run =>
              ~IsCreate(log[i]) /\ ~IsPatch(log[i])

C2_Witness ==
    /\ run > 1 /\ ~args.dry_run /\ runs[run - 1].exitCode = 0
    /\ NoFailure(run - 1)
    /\ runs[run - 1].missing # << >>
    /\ Cardinality(runs[run - 1].missing[1]) = 2
    /\ pc = "exit" /\ exitCode = 0 /\ NoFailure(run)
    /\ missing = << {} >>

-----------------------------------------------------------------------------
(* C3 *)

\* C3: a dry run sends no POST and no PATCH to Mealie, and it ends with
\* exit code 0 when no request fails.
C3_DryRunDoesNotMutate ==
    args.dry_run =>
        /\ \A i \in Idx : log[i].svc = "mealie" => log[i].method = "get"
        /\ (pc = "exit" /\ NoFailure(run)) => exitCode = 0

-----------------------------------------------------------------------------
(* C4 *)

Max(a, b) == IF a >= b THEN a ELSE b

\* a run stops fetching at the first page it receives without nextWeek
StopsAtLastPage ==
    \A i \in Idx :
        (IsPageFetch(log[i]) /\ log[i].ok
            /\ "nextWeek" \notin DOMAIN log[i].res) =>
        \A j \in Idx : (j > i /\ log[j].run = log[i].run) =>
                           ~IsPageFetch(log[j])

\* with a budget of zero or less, a returned get_past_deliveries has made
\* one fetch
OneFetchWithoutBudget ==
    (args.additional_deliveries <= 0 /\ Returned) =>
        Cardinality(Fetches(run)) = 1

\* C4 as stated: at most extra_pages + 1 page fetches for every integer
\* budget, exactly one fetch when the budget is zero or less, and no fetch
\* after a page without nextWeek.
C4_AtMostExtraPlusOneFetches ==
    /\ \A r \in 1..run :
          Cardinality(Fetches(r)) <= args.additional_deliveries + 1
    /\ OneFetchWithoutBudget
    /\ StopsAtLastPage

\* C4 amended: at most max(extra_pages, 0) + 1 page fetches (the loop is
\* left once that many have been made), exactly one fetch when the budget
\* is zero or less, and no fetch after a page without nextWeek.
C4_AtMostMaxExtraZeroPlusOneFetches ==
    /\ \A r \in 1..run :
          Cardinality(Fetches(r)) <= Max(args.additional_deliveries, 0) + 1
    /\ pc = "get_past_deliveries" =>
          Cardinality(Fetches(run)) <= Max(args.additional_deliveries, 0)
    /\ OneFetchWithoutBudget
    /\ StopsAtLastPage

C4_Witness ==
    /\ Returned
    /\ args.additional_deliveries = 2
    /\ Cardinality(Fetches(run)) = 2
    /\ budget = 1

C4_WitnessFull ==
    /\ Returned
    /\ args.additional_deliveries = 2
    /\ Cardinality(Fetches(run)) = 3

C4_WitnessNegative ==
    /\ Returned
    /\ args.additional_deliveries < 0
    /\ Cardinality(Fetches(run)) = 1

-----------------------------------------------------------------------------
(* C6 *)

\* C6: over all calls of set_tag_id Mealie creates at most one tag, and
\* every later call adopts the tag an earlier call adopted.
C6_TagResolutionIdempotent ==
    /\ Cardinality({i \in Idx : IsTagCreate(log[i])
                                   /\ Processed(log[i])}) <= 1
    /\ \A r1, r2 \in 1..run :
          (r1 < r2 /\ TagOf(r1) # NoTag /\ TagOf(r2) # NoTag) =>
              TagOf(r1) = TagOf(r2)

C6_Witness ==
    /\ run = 2
    /\ tag # NoTag
    /\ runs[1].tag = tag
    /\ \E i \in Idx : /\ IsTagCreate(log[i])
                      /\ log[i].run = 1
                      /\ log[i].ok
                      /\ log[i].res = tag

-----------------------------------------------------------------------------
(* C7 *)

\* C7: a failed request is the last request of its run, and the run ends
\* with a non-zero exit code.
C7_FailedRequestIsFatal ==
    \A i \in Idx :
        ~log[i].ok =>
            /\ \A j \in Idx : j > i => log[j].run > log[i].run
            /\ ExitCodeOf(log[i].run) # 0
            /\ log[i].run = run => pc = "exit"

C7_Witness ==
    /\ run = 2
    /\ runs[1].exitCode = 1
    /\ \E i \in Idx : /\ log[i].run = 1
                      /\ IsFetchRecipe(log[i])
                      /\ ~log[i].ok
    /\ pc = "exit" /\ exitCode = 1
    /\ IsPatch(log[Len(log)])
    /\ ~log[Len(log)].ok
    /\ log[Len(log)].effect

-----------------------------------------------------------------------------
(* C8 *)

\* run r ended on a failed request of the import loop
FailedInImportLoop(r) ==
    \E i \in Idx :
        /\ log[i].run = r
        /\ ~log[i].ok
        /\ IsCreate(log[i]) \/ IsFetchRecipe(log[i]) \/ IsPatch(log[i])

\* URLs whose recipe run r has created and Mealie has tagged
Imported(r) ==
    {u \in URLs : \E i \in Taggings(r, u) : Processed(log[i])}

\* C8: in the run after a run that failed in the import loop, new_recipes
\* is the failed run's new_recipes minus the imported URLs, and over both
\* runs Mealie creates a recipe from no URL more than once.
C8_RerunCreatesNoDuplicate ==
    (run > 1 /\ FailedInImportLoop(run - 1)) =>
        /\ missing # << >> =>
              missing[1] = runs[run - 1].missing[1] \ Imported(run - 1)
        /\ \A u \in URLs :
              Cardinality({i \in Creations(run - 1, u) \cup Creations(run, u) :
                              Processed(log[i])}) <= 1

-----------------------------------------------------------------------------
(* C9 *)

\* get_past_deliveries of the run in progress has returned on a page
\* without nextWeek while budget remained
Exhausted ==
    /\ budget > 0
    /\ \E i \in Fetches(run) :
          /\ \A j \in Fetches(run) : j <= i
          /\ log[i].ok
          /\ "nextWeek" \notin DOMAIN log[i].res

\* C9: after such a return recipes holds every URL of the fetched pages,
\* the run goes on with the Mealie requests, and it exits with 0 unless a
\* later request fails.
C9_ExhaustionIsNotFatal ==
    Exhausted =>
        /\ hf_recipes = VisitedURLs(run)
        /\ pc # "get_past_deliveries"
        /\ pc = "exit" =>
              \/ /\ exitCode = 0
                 /\ missing # << >>
                 /\ \E i \in Idx : log[i].run = run /\ IsList(log[i])
                                     /\ log[i].arg.perPage = tagged_recipes_nb
              \/ /\ log[Len(log)].run = run
                 /\ log[Len(log)].svc = "mealie"
                 /\ ~log[Len(log)].ok

C9_Witness ==
    /\ Exhausted
    /\ Cardinality(Fetches(run)) = 2
    /\ pc = "exit" /\ exitCode = 0
    /\ ~args.dry_run
    /\ \E u \in URLs : Creations(run, u) # {}

-----------------------------------------------------------------------------
(* C10 *)

\* the tag the tag resolution of a run adopts, read from the responses
ResolvedTag(i) ==
    IF log[i].res.items # << >> THEN {log[i].res.items[1]}
    ELSE {log[k].res : k \in {j \in Idx : /\ j > i
                                           /\ log[j].run = log[i].run
                                           /\ IsTagCreate(log[j])
                                           /\ log[j].ok}}

\* C10: every recipe-listing query comes after the tag search of its run
\* and, when that search returned no items, after a completed tag creation;
\* it filters on the tag found or created.
C10_TagResolutionPrecedesLookup ==
    \A q \in Idx :
        IsList(log[q]) =>
            \E i \in 1..(q - 1) :
                /\ log[i].run = log[q].run
                /\ IsTagSearch(log[i])
                /\ log[i].ok
                /\ log[i].res.items = << >> =>
                      \E k \in (i + 1)..(q - 1) :
                          /\ log[k].run = log[q].run
                          /\ IsTagCreate(log[k])
                          /\ log[k].ok
                          /\ log[k].res = log[q].arg.tags
                /\ log[i].res.items # << >> =>
                      log[q].arg.tags = log[i].res.items[1]

C10_Witness ==
    /\ \E i \in Idx : /\ log[i].run = run
                      /\ IsTagSearch(log[i])
                      /\ log[i].ok
                      /\ log[i].res.items = << >>
    /\ Cardinality({q \in Idx : log[q].run = run /\ IsList(log[q])
                                   /\ log[q].ok}) = 2

\* The part of C8 that the program does satisfy: the rerun's new_recipes is
\* the failed run's new_recipes minus the URLs whose recipe Mealie tagged.
C8_RerunMissing ==
    (run > 1 /\ FailedInImportLoop(run - 1)) =>
        (missing # << >> =>
              missing[1] = runs[run - 1].missing[1] \ Imported(run - 1))

=============================================================================
